---- MODULE Spec2Model ----
(***************************************************************************)
(* State-machine model of the order / payment / loyalty / stock bookkeeping *)
(* of gestionMold/api (models.py, signals.py, serializers.py, views.py).    *)
(*                                                                          *)
(* The database tables are the variables.  A request (a model save or a     *)
(* view handler) is a process that walks through the statements of its      *)
(* handler; each database statement (or each transaction.atomic block) is   *)
(* one step, so that concurrent requests interleave between statements as   *)
(* they do under autocommit.  Each subsystem has its own specification:     *)
(* the "Seq" specifications run the requests one at a time.                 *)
(* Money is counted in whole currency units.                                *)
(***************************************************************************)
EXTENDS Integers, Sequences, FiniteSets, TLC

\* ---------------------------------------------------------------- bounds
NStockProcs == 2        \* concurrent stock-movement requests
MaxQty == 2             \* largest movement quantity
NWarehouses == 1        \* warehouses holding the product
LowStock == 1           \* threshold of the product's StockAlert row

NProducts == 2          \* products of the catalogue
NOrders == 2            \* orders that exist
NLoyaltyProcs == 2      \* concurrent requests touching the loyalty account
MaxTx == 3              \* loyalty operations that append to the log
MaxUse == 2             \* largest number of points a request asks to use
NPayProcs == 2          \* concurrent requests saving payments
MaxAmount == 3          \* largest payment amount submitted
MaxLogs == 3            \* payment saves (each appends a PaymentLog row)
MaxLines == 1           \* lines submitted with a new order
MaxPrice == 2           \* largest selling price set on a product
MaxLineRows == 2        \* OrderLine rows in the table

StockProcs == 1..NStockProcs
Warehouses == 1..NWarehouses
Products == 1..NProducts
Orders == 1..NOrders
LoyaltyProcs == 1..NLoyaltyProcs
PayProcs == 1..NPayProcs

VARIABLES
    \* ---- catalogue and orders
    product_price,      \* Product.selling_price: product -> price
    order_status,       \* Order.order_status: order -> status
    order_total,        \* Order.total: order -> amount
    order_lines,        \* OrderLine rows: set of [id, order, product, quantity, unit_price]
    oreq,               \* the last order request and its outcome
    deliveries,         \* Delivery rows: set of [order, delivery_status]
    \* ---- payments
    payments,           \* Payment rows, by id: sequence of [order, method, amount, payment_status, paid_at]
    payment_logs,       \* PaymentLog rows: sequence of [order, payment_status, amount, new]
    client_balance,     \* ClientProfile.balance of the client owning the orders
    pproc,              \* payment requests: proc -> locals of the call
    \* ---- loyalty account of the client
    loyalty_points,     \* LoyaltyProgram.points
    loyalty_tx,         \* LoyaltyProgram.transactions: sequence of [kind, order, points]
    lproc,              \* loyalty requests: proc -> [pc, kind, order, points, earned, transactions]
    \* ---- stock ledger
    movements,          \* StockMovement rows: set of [id, warehouse, movement_type, quantity]
    stock_level,        \* StockLevel rows: warehouse -> [exists, quantity]
    quantity_in_stock,  \* Product.quantity_in_stock (denormalised, models.py:135)
    alerts,             \* StockAlert rows of the product: set of [threshold, is_active]
    sproc               \* stock requests: proc -> [pc, warehouse, movement_type, quantity, niveau, before]

orderVars == <<product_price, order_status, order_total, order_lines, oreq, deliveries>>
loyaltyVars == <<loyalty_points, loyalty_tx, lproc>>
stockVars == <<movements, stock_level, quantity_in_stock, alerts, sproc>>
payVars == <<payments, payment_logs, client_balance, pproc>>
vars == <<orderVars, payVars, loyaltyVars, stockVars>>
\* what the requests of one subsystem never touch
notLoyalty == <<payVars, stockVars>>
notStock == <<orderVars, payVars, loyaltyVars>>
notPay == <<loyaltyVars, stockVars>>

\* ------------------------------------------------------------------ sums
RECURSIVE Sum(_, _)
Sum(f, S) == IF S = {} THEN 0
             ELSE LET x == CHOOSE y \in S : TRUE IN f[x] + Sum(f, S \ {x})

\* --------------------------------------------------------------- orders
PENDING == "PENDING"
EN_COURS == "EN_COURS"
DELIVERED == "DELIVERED"
CANCELLED == "CANCELLED"
STATUS_CHOICES == {PENDING, EN_COURS, DELIVERED, CANCELLED}
\* an optional order reference: an order id, or 0 for None
OrderRefs == 0..NOrders

LinesOf(o) == {l \in order_lines : l.order = o}

\* Order.clean: a ValidationError unless the order has a line in the database
OrderCleanOk(o) == LinesOf(o) # {}

\* Order.save runs full_clean before the insert, so Order.clean reads
\* self.lignes_commandes of an order that has no primary key yet: the reverse
\* manager of an unsaved instance raises ValueError (Django 4.1 and later; the
\* migrations were generated by Django 4.2.21 and 5.2) before the
\* ValidationError of clean can be raised, and full_clean lets it through
CleanBeforeInsertError == "ValueError"

IdleOrderReq == [op |-> "none", order |-> 0, order_status |-> PENDING,
                 lines |-> <<>>, outcome |-> "none", exc |-> "none"]

\* The orders that exist at the start: order o holds one line of 3 units of
\* product ((o - 1) % NProducts) + 1, bought at the product's price, and its
\* total is the sum over its lines.  (Order.save cannot insert them, see
\* CreateOrder: they are rows loaded past it, as fixtures or bulk_create are.)
InitialLine(o, price) ==
    LET pr == ((o - 1) % NProducts) + 1
    IN [id |-> o, order |-> o, product |-> pr, quantity |-> 3, unit_price |-> price[pr]]

OrdersInit(price, statuses) ==
    /\ product_price = price
    /\ order_lines = {InitialLine(o, price) : o \in Orders}
    /\ order_total = [o \in Orders |-> 3 * price[((o - 1) % NProducts) + 1]]
    /\ order_status \in [Orders -> statuses]
    /\ oreq = IdleOrderReq
    /\ deliveries = {}

OrdersParked ==
    OrdersInit([pr \in Products |-> pr], {PENDING})

\* the lines a client can submit: up to MaxLines of [product, quantity]; the
\* serializer's quantity field accepts 0 (PositiveIntegerField) and its list
\* may be empty
LineInputs == [product : Products, quantity : 0..MaxQty]
LinesData == UNION {[1..n -> LineInputs] : n \in 0..MaxLines}

OrderIds == DOMAIN order_status
NewOrderId == IF OrderIds = {} THEN 1 ELSE (CHOOSE o \in OrderIds : \A x \in OrderIds : x <= o) + 1
LineIds == {l.id : l \in order_lines}
LastLineId == IF LineIds = {} THEN 0 ELSE CHOOSE i \in LineIds : \A x \in LineIds : x <= i

\* Order.update_total: sum of unit_price * quantity over the order's lines
LinesTotal(lines) ==
    LET ids == {l.id : l \in lines}
        amount == [i \in ids |-> LET l == CHOOSE x \in lines : x.id = i
                                 IN l.unit_price * l.quantity]
    IN Sum(amount, ids)

EN_ATTENTE == "EN_ATTENTE"

\* signals.create_delivery_for_new_order: the insert of an order (created)
\* creates a Delivery for it unless one exists; later saves create none
NewOrderDelivery(o) ==
    IF \E d \in deliveries : d.order = o THEN {}
    ELSE {[order |-> o, delivery_status |-> EN_ATTENTE]}

\* OrderWriteSerializer.create, one transaction: Order.objects.create saves
\* the order, and Order.save runs full_clean, whose clean() wants a line of
\* this order in the database; the lines are created after the order, so none
\* is there yet, the exception leaves the block and nothing is persisted.
\* Were the order saved, each line would be saved at the product's selling
\* price and the total recomputed after each (OrderLine.save).
CreateOrder ==
    \E lines_data \in LinesData, st \in STATUS_CHOICES :
        LET new == NewOrderId
            saved == OrderCleanOk(new)
            lines == {[id |-> LastLineId + k, order |-> new,
                       product |-> lines_data[k].product,
                       quantity |-> lines_data[k].quantity,
                       unit_price |-> product_price[lines_data[k].product]] :
                      k \in 1..Len(lines_data)}
        IN /\ IF saved
              THEN /\ order_status' = [o \in OrderIds \cup {new} |->
                                          IF o = new THEN st ELSE order_status[o]]
                   /\ order_lines' = order_lines \cup lines
                   /\ order_total' = [o \in OrderIds \cup {new} |->
                                          IF o = new THEN LinesTotal(lines) ELSE order_total[o]]
                   /\ deliveries' = deliveries \cup NewOrderDelivery(new)
              ELSE UNCHANGED <<order_status, order_lines, order_total, deliveries>>
           /\ oreq' = [op |-> "create", order |-> IF saved THEN new ELSE 0,
                       order_status |-> st, lines |-> lines_data,
                       outcome |-> IF saved THEN "created" ELSE "error",
                       exc |-> IF saved THEN "none" ELSE CleanBeforeInsertError]
    /\ UNCHANGED <<product_price, payVars, notPay>>

\* OrderLineDetailAPIView update: quantity is the only writable field;
\* OrderLine.save takes the product's current selling price and
\* Order.update_total saves the new total (Order.clean finds this line)
UpdateOrderLine ==
    \E l \in order_lines, q \in 0..MaxQty :
        LET line == [l EXCEPT !.quantity = q, !.unit_price = product_price[l.product]]
            lines == (order_lines \ {l}) \cup {line}
        IN /\ order_lines' = lines
           /\ order_total' = [order_total EXCEPT
                                 ![l.order] = LinesTotal({x \in lines : x.order = l.order})]
           /\ oreq' = [IdleOrderReq EXCEPT !.op = "update_line", !.order = l.order,
                                           !.outcome = "ok"]
    /\ UNCHANGED <<product_price, order_status, deliveries, payVars, notPay>>

\* A line is added to an existing order (OrderLineInline of the admin, or
\* OrderLine.objects.create): OrderLine.save takes the product's current
\* selling price and Order.update_total saves the new total
\* the primary key of a new line: an id no row holds
NewLineId == CHOOSE i \in 1..MaxLineRows : i \notin LineIds /\ \A j \in 1..(i - 1) : j \in LineIds

AddOrderLine ==
    /\ Cardinality(order_lines) < MaxLineRows
    /\ \E o \in OrderIds, ln \in LineInputs :
        LET line == [id |-> NewLineId, order |-> o, product |-> ln.product,
                     quantity |-> ln.quantity, unit_price |-> product_price[ln.product]]
            lines == order_lines \cup {line}
        IN /\ order_lines' = lines
           /\ order_total' = [order_total EXCEPT
                                 ![o] = LinesTotal({x \in lines : x.order = o})]
           /\ oreq' = [IdleOrderReq EXCEPT !.op = "add_line", !.order = o,
                                           !.outcome = "ok"]
    /\ UNCHANGED <<product_price, order_status, deliveries, payVars, notPay>>

\* OrderLineDetailAPIView destroy: the row is deleted; OrderLine has no
\* delete() and no post_delete receiver, the order's total stays
DeleteOrderLine ==
    \E l \in order_lines :
        /\ order_lines' = order_lines \ {l}
        /\ oreq' = [IdleOrderReq EXCEPT !.op = "delete_line", !.order = l.order,
                                        !.outcome = "ok"]
    /\ UNCHANGED <<product_price, order_status, order_total, deliveries, payVars, notPay>>

\* a product's selling price is changed (admin change form)
SetSellingPrice ==
    \E pr \in Products, price \in 1..MaxPrice :
        /\ product_price' = [product_price EXCEPT ![pr] = price]
        /\ oreq' = [IdleOrderReq EXCEPT !.op = "set_price", !.outcome = "ok"]
    /\ UNCHANGED <<order_status, order_total, order_lines, deliveries, payVars, notPay>>

\* order requests, one at a time
OrderNext ==
    \/ CreateOrder
    \/ UpdateOrderLine
    \/ DeleteOrderLine
    \/ SetSellingPrice

\* requests on the lines of the existing orders, one at a time
OrderLinesNext ==
    \/ AddOrderLine
    \/ UpdateOrderLine
    \/ DeleteOrderLine
    \/ SetSellingPrice

\* ------------------------------------------------------------- payments
PAY_PENDING == "PENDING"
PAID == "PAID"
FAILED == "FAILED"
PAYMENT_STATUS_CHOICES == {PAY_PENDING, PAID, FAILED}
\* PAYMENT_METHODS: BALANCE is the account-balance method; CARD stands for the
\* six others, which no code path tells apart
PAYMENT_METHODS == {"CARD", "BALANCE"}

PaymentIds == 1..Len(payments)

\* Sum('amount') over the order's PAID payments, leaving out payment id `except`
\* (.exclude(pk=self.pk), 0 for a payment not yet inserted)
PaidSum(rows, o, except) ==
    LET ids == {i \in 1..Len(rows) :
                    i # except /\ rows[i].order = o /\ rows[i].payment_status = PAID}
    IN Sum([i \in ids |-> rows[i].amount], ids)

\* MinValueValidator(0) on Payment.amount (models.py:821), run by the
\* serializer field and by full_clean's clean_fields
AmountFieldOk(amount) == amount >= 0

\* PaymentSerializer.validate lines 230-235
SerializerValidateOk(method, amount, balance, total, paid) ==
    /\ ~(method = "BALANCE" /\ balance < amount)
    /\ ~(amount > total - paid)

\* Payment.clean lines 841-844: reste = self.order.total - total_paid
PaymentCleanOkSignMutant(amount, total, total_paid) == ~(amount > total + total_paid)
PaymentCleanOkMutant(amount, total, total_paid) == TRUE
PaymentCleanOk(amount, total, total_paid) == ~(amount > total - total_paid)

IdlePayProc ==
    [pc |-> "idle", kind |-> "none", id |-> 0, order |-> 0, method |-> "CARD",
     amount |-> 0, payment_status |-> PAY_PENDING, paid_at |-> 0,
     total |-> 0, order_status |-> PENDING, balance |-> 0]

PayParked ==
    /\ payments = <<>>
    /\ payment_logs = <<>>
    /\ client_balance = 0
    /\ pproc = [p \in PayProcs |-> IdlePayProc]

PayInProgress(p) == pproc[p].pc \in {"validated", "cleaned", "saved"}

\* every save appends a PaymentLog row: the log bounds the number of saves
PayLogHasRoom ==
    Len(payment_logs) + Cardinality({p \in PayProcs : PayInProgress(p)}) < MaxLogs

\* PaymentCreateView.post: the serializer loads the order (its total and status
\* stay in the request's Order object) and the client's profile, runs the
\* field validators and validate(); a ValidationError ends the request.
\* paid_at is left to the model (not submitted).
PaymentValidate(p) ==
    /\ pproc[p].pc = "idle"
    /\ PayLogHasRoom
    /\ \E o \in Orders, m \in PAYMENT_METHODS, a \in (-1)..MaxAmount,
          st \in PAYMENT_STATUS_CHOICES :
          LET ok == /\ AmountFieldOk(a)
                    /\ SerializerValidateOk(m, a, client_balance, order_total[o],
                                            PaidSum(payments, o, 0))
          IN pproc' = [pproc EXCEPT ![p] =
                [IdlePayProc EXCEPT
                   !.pc = IF ok THEN "validated" ELSE "failed",
                   !.kind = "create", !.order = o, !.method = m, !.amount = a,
                   !.payment_status = st, !.total = order_total[o],
                   !.order_status = order_status[o], !.balance = client_balance]]
    /\ UNCHANGED <<orderVars, payments, payment_logs, client_balance, notPay>>

\* An existing payment is loaded (with its order), its amount and status are
\* set and save() is called (admin change form, or any caller of Payment.save)
PaymentLoad(p) ==
    /\ pproc[p].pc = "idle"
    /\ PayLogHasRoom
    /\ \E i \in PaymentIds, a \in (-1)..MaxAmount, st \in PAYMENT_STATUS_CHOICES :
          LET row == payments[i]
          IN pproc' = [pproc EXCEPT ![p] =
                [IdlePayProc EXCEPT
                   !.pc = "validated", !.kind = "update", !.id = i,
                   !.order = row.order, !.method = row.method, !.amount = a,
                   !.payment_status = st, !.paid_at = row.paid_at,
                   !.total = order_total[row.order],
                   !.order_status = order_status[row.order],
                   !.balance = client_balance]]
    /\ UNCHANGED <<orderVars, payments, payment_logs, client_balance, notPay>>

\* Payment.save line 847: self.full_clean(), i.e. the field validators and
\* clean(), on the payments as they are now and the order total as loaded
PaymentFullClean(p) ==
    /\ pproc[p].pc = "validated"
    /\ LET r == pproc[p]
           ok == /\ AmountFieldOk(r.amount)
                 /\ PaymentCleanOk(r.amount, r.total, PaidSum(payments, r.order, r.id))
       IN pproc' = [pproc EXCEPT ![p] = [@ EXCEPT !.pc = IF ok THEN "cleaned" ELSE "failed"]]
    /\ UNCHANGED <<orderVars, payments, payment_logs, client_balance, notPay>>

\* Order.update_status_if_paid lines 498-501 with the request's Order object
\* (total and status as loaded): does it write EN_COURS?  Order.save runs
\* full_clean first; under the post_save receiver update_order_on_payment its
\* ValidationError is logged and dropped, the object keeping EN_COURS.
UpdateStatusIfPaidWritesMutant(rows, o, total, status) ==
    /\ PaidSum(rows, o, 0) > total
    /\ status # EN_COURS
    /\ OrderCleanOk(o)
UpdateStatusIfPaidWrites(rows, o, total, status) ==
    /\ PaidSum(rows, o, 0) >= total
    /\ status # EN_COURS
    /\ OrderCleanOk(o)

\* Payment.save lines 851-856: the PaymentLog row of a save
PaymentLogEntryMutant(r) ==
    [order |-> r.order, payment_status |-> PAY_PENDING,
     amount |-> r.amount, new |-> r.id = 0]
PaymentLogEntry(r) ==
    [order |-> r.order, payment_status |-> r.payment_status,
     amount |-> r.amount, new |-> r.id = 0]

\* Payment.save lines 857-859: a PAID payment without paid_at is stamped with
\* the current time (now), any other keeps the paid_at it has
PaidAtStampMutant(r, now) == IF r.payment_status = PAID THEN now ELSE r.paid_at
PaidAtStamp(r, now) == IF r.payment_status = PAID /\ r.paid_at = 0 THEN now ELSE r.paid_at

\* Payment.save lines 849-861, one transaction: the row is inserted or updated
\* (post_save: update_order_on_payment), the PaymentLog row is created, and a
\* PAID payment without paid_at is stamped and saved again (post_save again)
\* before update_status_if_paid is called a last time.  The first call of
\* update_status_if_paid leaves EN_COURS in the Order object, so the later
\* calls of this save find nothing to do.
PaymentWrite(p) ==
    /\ pproc[p].pc = "cleaned"
    /\ LET r == pproc[p]
           is_new == r.id = 0
           logs == Append(payment_logs, PaymentLogEntry(r))
           stamp == PaidAtStamp(r, Len(logs))
           row == [order |-> r.order, method |-> r.method, amount |-> r.amount,
                   payment_status |-> r.payment_status, paid_at |-> stamp]
           rows == IF is_new THEN Append(payments, row)
                   ELSE [payments EXCEPT ![r.id] = row]
           pk == IF is_new THEN Len(rows) ELSE r.id
           writes == /\ r.payment_status = PAID
                     /\ UpdateStatusIfPaidWrites(rows, r.order, r.total, r.order_status)
       IN /\ payments' = rows
          /\ payment_logs' = logs
          /\ order_status' = IF writes THEN [order_status EXCEPT ![r.order] = EN_COURS]
                             ELSE order_status
          /\ pproc' = [pproc EXCEPT ![p] =
                [@ EXCEPT !.pc = IF r.kind = "create" THEN "saved" ELSE "done",
                          !.id = pk, !.paid_at = stamp,
                          !.order_status = IF r.payment_status = PAID
                                              /\ PaidSum(rows, r.order, 0) >= r.total
                                           THEN EN_COURS ELSE r.order_status]]
    /\ UNCHANGED <<product_price, order_total, order_lines, oreq, deliveries, client_balance, notPay>>

\* PaymentSerializer.create lines 240-244: a PAID payment by BALANCE takes its
\* amount off the balance read when the request was validated
PaymentDeduct(p) ==
    /\ pproc[p].pc = "saved"
    /\ LET r == pproc[p]
       IN client_balance' = IF r.method = "BALANCE" /\ r.payment_status = PAID
                            THEN r.balance - r.amount ELSE client_balance
    /\ pproc' = [pproc EXCEPT ![p] = [@ EXCEPT !.pc = "done"]]
    /\ UNCHANGED <<orderVars, payments, payment_logs, notPay>>

\* the response is sent; the worker takes the next request
PayReturn(p) ==
    /\ pproc[p].pc \in {"done", "failed"}
    /\ pproc' = [pproc EXCEPT ![p] = IdlePayProc]
    /\ UNCHANGED <<orderVars, payments, payment_logs, client_balance, notPay>>

\* concurrent requests, one per worker: any interleaving of their steps
PayNext ==
    \E p \in PayProcs :
        \/ PaymentValidate(p)
        \/ PaymentLoad(p)
        \/ PaymentFullClean(p)
        \/ PaymentWrite(p)
        \/ PaymentDeduct(p)

\* one request at a time, any number of them one after the other: a single
\* worker
PayNextSeq ==
    \E p \in {1} :
        \/ PaymentValidate(p)
        \/ PaymentLoad(p)
        \/ PaymentFullClean(p)
        \/ PaymentWrite(p)
        \/ PaymentDeduct(p)
        \/ PayReturn(p)

\* ------------------------------------------------------ loyalty account
\* LoyaltyProgram.add_points line 1173: earned = int(order.total // 10)
earned(total) == total \div 10

\* signals.award_loyalty_points_on_delivery line 51:
\* any(txn.get('order') == instance.id for txn in loyalty.transactions)
HasTxnFor(txs, o) == \E i \in 1..Len(txs) : txs[i].order = o

IdleLoyaltyProc ==
    [pc |-> "idle", kind |-> "none", order |-> 0, points |-> 0,
     earned |-> 0, transactions |-> <<>>, result |-> <<>>]

LoyaltyParked ==
    /\ loyalty_points = 0
    /\ loyalty_tx = <<>>
    /\ lproc = [p \in LoyaltyProcs |-> IdleLoyaltyProc]

LoyaltyInProgress(p) == lproc[p].pc \in {"update", "refresh", "write"}

\* a request that can still append needs room in the (bounded) log
LogHasRoom ==
    Len(loyalty_tx) + Cardinality({p \in LoyaltyProcs : LoyaltyInProgress(p)}) < MaxTx

\* Order.save with order_status = s (an external status write, e.g. PATCH of
\* OrderViewSet): full_clean (Order.clean), the UPDATE, then post_save:
\* create_delivery_for_new_order does nothing (created is False) and
\* award_loyalty_points_on_delivery, for DELIVERED, loads the loyalty row
\* (get_or_create) and scans its transactions for the order.
SaveOrderStatus(p) ==
    /\ lproc[p].pc = "idle"
    /\ LogHasRoom
    /\ \E o \in Orders, s \in STATUS_CHOICES :
          IF ~OrderCleanOk(o)
          THEN /\ lproc' = [lproc EXCEPT ![p] =
                     [IdleLoyaltyProc EXCEPT !.pc = "failed", !.kind = "save", !.order = o]]
               /\ UNCHANGED order_status
          ELSE /\ order_status' = [order_status EXCEPT ![o] = s]
               /\ lproc' = [lproc EXCEPT ![p] =
                     [IdleLoyaltyProc EXCEPT
                        !.pc = IF s = DELIVERED /\ ~HasTxnFor(loyalty_tx, o)
                               THEN "update" ELSE "done",
                        !.kind = "save", !.order = o,
                        !.earned = earned(order_total[o])]]
    /\ UNCHANGED <<product_price, order_total, order_lines, oreq, deliveries, loyalty_points, loyalty_tx, notLoyalty>>

\* LoyaltyUsePointsView.post / LoyaltyProgram.use_points lines 1188-1190: the
\* account is loaded and the request refused when self.points < points
UsePointsCheckMutant(p) ==
    /\ lproc[p].pc = "idle"
    /\ LogHasRoom
    /\ \E pts \in (-1)..MaxUse, o \in OrderRefs :
          lproc' = [lproc EXCEPT ![p] =
                [IdleLoyaltyProc EXCEPT
                   !.pc = "update", !.kind = "use", !.order = o, !.points = pts]]
    /\ UNCHANGED <<orderVars, loyalty_points, loyalty_tx, notLoyalty>>
UsePointsCheck(p) ==
    /\ lproc[p].pc = "idle"
    /\ LogHasRoom
    /\ \E pts \in (-1)..MaxUse, o \in OrderRefs :
          lproc' = [lproc EXCEPT ![p] =
                [IdleLoyaltyProc EXCEPT
                   !.pc = IF loyalty_points < pts THEN "failed" ELSE "update",
                   !.kind = "use", !.order = o, !.points = pts]]
    /\ UNCHANGED <<orderVars, loyalty_points, loyalty_tx, notLoyalty>>

\* add_points line 1174 / use_points line 1191: UPDATE points = F('points') +/- n.
\* points is a PositiveIntegerField (line 1155): the database refuses a
\* negative result (IntegrityError) and the call leaves with nothing written.
PointsUpdateMutant(p) ==
    /\ lproc[p].pc = "update"
    /\ LET delta == IF lproc[p].kind = "save" THEN lproc[p].earned ELSE -lproc[p].points
       IN /\ loyalty_points' = loyalty_points + delta
          /\ lproc' = [lproc EXCEPT ![p] = [@ EXCEPT !.pc = "refresh"]]
    /\ UNCHANGED <<orderVars, loyalty_tx, notLoyalty>>
PointsUpdate(p) ==
    /\ lproc[p].pc = "update"
    /\ LET delta == IF lproc[p].kind = "save" THEN lproc[p].earned ELSE -lproc[p].points
       IN IF loyalty_points + delta < 0
          THEN /\ lproc' = [lproc EXCEPT ![p] = [@ EXCEPT !.pc = "failed"]]
               /\ UNCHANGED loyalty_points
          ELSE /\ loyalty_points' = loyalty_points + delta
               /\ lproc' = [lproc EXCEPT ![p] = [@ EXCEPT !.pc = "refresh"]]
    /\ UNCHANGED <<orderVars, loyalty_tx, notLoyalty>>

\* lines 1175 / 1192: self.refresh_from_db() re-reads the row, transactions included
RefreshFromDb(p) ==
    /\ lproc[p].pc = "refresh"
    /\ lproc' = [lproc EXCEPT ![p] = [@ EXCEPT !.pc = "write", !.transactions = loyalty_tx]]
    /\ UNCHANGED <<orderVars, loyalty_points, loyalty_tx, notLoyalty>>

\* lines 1176-1182 / 1193-1200: the entry is appended to the list read by
\* refresh_from_db, save(update_fields=['transactions']) writes the whole list,
\* and the call returns the points (result)
NewTxnMutant(r) ==
    IF r.kind = "save"
    THEN [kind |-> "accrual", order |-> r.order, points |-> r.earned]
    ELSE [kind |-> "use", order |-> r.order, points |-> r.points]
NewTxn(r) ==
    IF r.kind = "save"
    THEN [kind |-> "accrual", order |-> r.order, points |-> r.earned]
    ELSE [kind |-> "use", order |-> r.order, points |-> -r.points]

SaveTransactions(p) ==
    /\ lproc[p].pc = "write"
    /\ loyalty_tx' = Append(lproc[p].transactions, NewTxn(lproc[p]))
    /\ lproc' = [lproc EXCEPT ![p] =
          [@ EXCEPT !.pc = "done", !.transactions = <<>>,
                    !.result = <<IF lproc[p].kind = "save" THEN lproc[p].earned
                                 ELSE lproc[p].points>>]]
    /\ UNCHANGED <<orderVars, loyalty_points, notLoyalty>>

\* the response is sent; the worker takes the next request
LoyaltyReturn(p) ==
    /\ lproc[p].pc \in {"done", "failed"}
    /\ lproc' = [lproc EXCEPT ![p] = IdleLoyaltyProc]
    /\ UNCHANGED <<orderVars, loyalty_points, loyalty_tx, notLoyalty>>

OtherLoyaltyIdle(p) == \A q \in LoyaltyProcs \ {p} : lproc[q].pc = "idle"

\* concurrent requests, one per worker: any interleaving of their statements
LoyaltyNext ==
    \E p \in LoyaltyProcs :
        \/ SaveOrderStatus(p)
        \/ UsePointsCheck(p)
        \/ PointsUpdate(p)
        \/ RefreshFromDb(p)
        \/ SaveTransactions(p)

\* one request at a time (a request starts only when the other workers are
\* idle), any number of them one after the other
LoyaltyNextSeq ==
    \E p \in LoyaltyProcs :
        \/ OtherLoyaltyIdle(p) /\ SaveOrderStatus(p)
        \/ OtherLoyaltyIdle(p) /\ UsePointsCheck(p)
        \/ PointsUpdate(p)
        \/ RefreshFromDb(p)
        \/ SaveTransactions(p)
        \/ LoyaltyReturn(p)

\* ------------------------------------------------------------ stock ledger
MV_IN == "IN"
MV_OUT == "OUT"
MV_ADJ == "ADJ"
MOVEMENT_CHOICES == {MV_IN, MV_OUT, MV_ADJ}

\* StockAlert.check_stock raises: the threshold test passes, send_alert swallows
\* its own errors, and Notification.objects.create(user=self.product.category.user)
\* then reads an attribute the Category model does not have (AttributeError).
check_stock_raises(alert) == quantity_in_stock <= alert.threshold

\* signals.check_stock_alerts: every active alert of the product is checked;
\* the receiver has no try/except, so the first raise leaves the save.
check_stock_alerts_raises ==
    \E alert \in alerts : alert.is_active /\ check_stock_raises(alert)

\* lines 406-410: the signed adjustment of a movement
ajustementMutant(movement_type, quantity) == quantity
ajustement(movement_type, quantity) ==
    IF movement_type = MV_OUT THEN -quantity ELSE quantity

\* line 412: niveau.quantity = F('quantity') + ajustement is evaluated by the
\* database on the row's current value (dbq), not on the value read earlier (niveau)
FQuantityMutant(dbq, niveau, adj) == niveau + adj
FQuantity(dbq, niveau, adj) == dbq + adj

IdleStockProc ==
    [pc |-> "idle", warehouse |-> 1, movement_type |-> MV_IN, quantity |-> 0,
     niveau |-> 0, before |-> [exists |-> FALSE, quantity |-> 0]]

StockParked ==
    /\ movements = {}
    /\ stock_level = [w \in Warehouses |-> [exists |-> FALSE, quantity |-> 0]]
    /\ quantity_in_stock = 0
    /\ alerts = {}
    /\ sproc = [p \in StockProcs |-> IdleStockProc]

StockInit ==
    /\ OrdersParked
    /\ PayParked
    /\ LoyaltyParked
    /\ movements = {}
    /\ stock_level = [w \in Warehouses |-> [exists |-> FALSE, quantity |-> 0]]
    /\ quantity_in_stock \in {0, LowStock + 1}
    /\ alerts \in {{[threshold |-> LowStock, is_active |-> a]} : a \in BOOLEAN}
    /\ sproc = [p \in StockProcs |-> IdleStockProc]

\* StockMovement.save, lines 394-395: is_new, super().save() inserts the row
\* (autocommit: it is persisted at once) and post_save runs check_stock_alerts
\* inside that call; a raise there leaves save() before the level is touched.
MovementInsert(p) ==
    /\ sproc[p].pc = "idle"
    /\ \E w \in Warehouses, t \in MOVEMENT_CHOICES, q \in 0..MaxQty :
          /\ movements' = movements \cup
                {[id |-> p, warehouse |-> w, movement_type |-> t, quantity |-> q]}
          /\ sproc' = [sproc EXCEPT ![p] =
                [@ EXCEPT !.pc = IF check_stock_alerts_raises THEN "failed" ELSE "inserted",
                          !.warehouse = w, !.movement_type = t, !.quantity = q,
                          !.before = stock_level[w]]]
    /\ UNCHANGED <<stock_level, quantity_in_stock, alerts, notStock>>

\* lines 399-403: StockLevel.objects.get_or_create(product, warehouse,
\* defaults={'quantity': 0}); unique_together makes a racing create fall back to get
MovementGetOrCreate(p) ==
    /\ sproc[p].pc = "inserted"
    /\ LET w == sproc[p].warehouse
           row == IF stock_level[w].exists THEN stock_level[w]
                  ELSE [exists |-> TRUE, quantity |-> 0]
       IN /\ stock_level' = [stock_level EXCEPT ![w] = row]
          /\ sproc' = [sproc EXCEPT ![p] = [@ EXCEPT !.pc = "level", !.niveau = row.quantity]]
    /\ UNCHANGED <<movements, quantity_in_stock, alerts, notStock>>

\* lines 412-414: niveau.save() writes quantity = F('quantity') + ajustement;
\* StockLevel.quantity is a PositiveIntegerField (line 322), whose CHECK
\* (quantity >= 0) makes the database reject a negative result (IntegrityError).
\* refresh_from_db() re-reads the row into the local object, which save() then
\* drops: the process keeps in niveau what get_or_create had read.
MovementUpdateLevel(p) ==
    /\ sproc[p].pc = "level"
    /\ LET w == sproc[p].warehouse
           q == FQuantity(stock_level[w].quantity, sproc[p].niveau,
                          ajustement(sproc[p].movement_type, sproc[p].quantity))
       IN IF q < 0
          THEN /\ sproc' = [sproc EXCEPT ![p] = [@ EXCEPT !.pc = "failed"]]
               /\ UNCHANGED stock_level
          ELSE /\ stock_level' = [stock_level EXCEPT ![w] = [@ EXCEPT !.quantity = q]]
               /\ sproc' = [sproc EXCEPT ![p] = [@ EXCEPT !.pc = "done"]]
    /\ UNCHANGED <<movements, quantity_in_stock, alerts, notStock>>

StockInProgress(p) == sproc[p].pc \in {"inserted", "level"}
NoStockInProgress == \A q \in StockProcs : ~StockInProgress(q)

\* concurrent requests: any interleaving of the statements of the saves
StockNext ==
    \E p \in StockProcs :
        \/ MovementInsert(p)
        \/ MovementGetOrCreate(p)
        \/ MovementUpdateLevel(p)

\* one request at a time: a save starts only while no other is under way
StockNextSeq ==
    \E p \in StockProcs :
        \/ NoStockInProgress /\ MovementInsert(p)
        \/ MovementGetOrCreate(p)
        \/ MovementUpdateLevel(p)

\* StockMovementDetailAPIView update (PUT / PATCH, every serializer field is
\* writable): StockMovement.save with a primary key, so is_new is False:
\* super().save() updates the row, post_save runs check_stock_alerts, and the
\* block that adjusts the StockLevel (lines 397-414) is skipped.
MovementUpdate(p) ==
    /\ sproc[p].pc = "idle"
    /\ \E m \in movements, w \in Warehouses, t \in MOVEMENT_CHOICES, q \in 0..MaxQty :
          /\ movements' = (movements \ {m}) \cup
                {[m EXCEPT !.warehouse = w, !.movement_type = t, !.quantity = q]}
          /\ sproc' = [sproc EXCEPT ![p] =
                [@ EXCEPT !.pc = IF check_stock_alerts_raises THEN "failed" ELSE "done",
                          !.warehouse = w, !.movement_type = t, !.quantity = q,
                          !.before = stock_level[w]]]
    /\ UNCHANGED <<stock_level, quantity_in_stock, alerts, notStock>>

\* StockMovementDetailAPIView destroy: the row is deleted; StockMovement has
\* no delete() and no post_delete receiver, the StockLevel stays as it is
MovementDelete(p) ==
    /\ sproc[p].pc = "idle"
    /\ \E m \in movements :
          /\ movements' = movements \ {m}
          /\ sproc' = [sproc EXCEPT ![p] =
                [@ EXCEPT !.pc = "done",
                          !.warehouse = m.warehouse, !.movement_type = m.movement_type,
                          !.quantity = m.quantity, !.before = stock_level[m.warehouse]]]
    /\ UNCHANGED <<stock_level, quantity_in_stock, alerts, notStock>>

\* creations, updates and deletions of movements, one request at a time
StockLedgerNext ==
    \E p \in StockProcs :
        \/ NoStockInProgress /\ MovementInsert(p)
        \/ MovementGetOrCreate(p)
        \/ MovementUpdateLevel(p)
        \/ NoStockInProgress /\ MovementUpdate(p)
        \/ NoStockInProgress /\ MovementDelete(p)

SpecStock == StockInit /\ [][StockNext]_vars
SpecStockLedger == StockInit /\ [][StockLedgerNext]_vars
SpecStockSeq == StockInit /\ [][StockNextSeq]_vars

\* The loyalty specifications: orders of 3 units at 10 and 15 (totals 30, 45),
\* none delivered yet, an account with 0 points and an empty log.
LoyaltyInit ==
    /\ OrdersInit([pr \in Products |-> 5 * (pr + 1)], {PENDING})
    /\ PayParked
    /\ LoyaltyParked
    /\ StockParked

\* The payment specifications: orders of 3 units at 1, 2, ... (totals 3, 6, ...)
\* all in one status, whichever, no payment yet, a client balance of
\* MaxAmount - 1.
PayInit ==
    /\ \E s \in STATUS_CHOICES : OrdersInit([pr \in Products |-> pr], {s})
    /\ payments = <<>>
    /\ payment_logs = <<>>
    /\ client_balance = MaxAmount - 1
    /\ pproc = [p \in PayProcs |-> IdlePayProc]
    /\ LoyaltyParked
    /\ StockParked

\* The order specification: the orders at the start are PENDING, bought at
\* prices 1, 2, ...
OrderInit ==
    /\ OrdersParked
    /\ PayParked
    /\ LoyaltyParked
    /\ StockParked

SpecOrder == OrderInit /\ [][OrderNext]_vars
SpecOrderLines == OrderInit /\ [][OrderLinesNext]_vars

\* The payment specification on a delivered order: order 1 was paid in full by
\* one card payment (which moved it to EN_COURS) and then delivered by an
\* external status write, whose receiver logged the accrual; the other orders
\* are PENDING and unpaid.
PayDeliveredInit ==
    /\ OrdersInit([pr \in Products |-> pr], {PENDING, DELIVERED})
    /\ \A o \in Orders : order_status[o] = DELIVERED <=> o = 1
    /\ payments = <<[order |-> 1, method |-> "CARD", amount |-> order_total[1],
                     payment_status |-> PAID, paid_at |-> 1]>>
    /\ payment_logs = <<[order |-> 1, payment_status |-> PAID,
                         amount |-> order_total[1], new |-> TRUE]>>
    /\ client_balance = MaxAmount - 1
    /\ pproc = [p \in PayProcs |-> IdlePayProc]
    /\ loyalty_points = earned(order_total[1])
    /\ loyalty_tx = <<[kind |-> "accrual", order |-> 1, points |-> earned(order_total[1])]>>
    /\ lproc = [p \in LoyaltyProcs |-> IdleLoyaltyProc]
    /\ StockParked

SpecPayDelivered == PayDeliveredInit /\ [][PayNextSeq]_vars

\* The order-line specification on a paid order: order 1 was paid in full by
\* one card payment, which moved it to EN_COURS; the other orders are PENDING
\* and unpaid.  The requests are those on the lines of the existing orders.
OrderPaidInit ==
    /\ OrdersInit([pr \in Products |-> pr], {PENDING, EN_COURS})
    /\ \A o \in Orders : order_status[o] = EN_COURS <=> o = 1
    /\ payments = <<[order |-> 1, method |-> "CARD", amount |-> order_total[1],
                     payment_status |-> PAID, paid_at |-> 1]>>
    /\ payment_logs = <<[order |-> 1, payment_status |-> PAID,
                         amount |-> order_total[1], new |-> TRUE]>>
    /\ client_balance = MaxAmount - 1
    /\ pproc = [p \in PayProcs |-> IdlePayProc]
    /\ LoyaltyParked
    /\ StockParked

SpecOrderPaid == OrderPaidInit /\ [][OrderLinesNext]_vars

SpecPay == PayInit /\ [][PayNext]_vars
SpecPaySeq == PayInit /\ [][PayNextSeq]_vars

\* The redemption specification: order 1 has been delivered and credited (the
\* account holds its points, the log its accrual), the other orders are
\* PENDING.
LoyaltyUseInit ==
    /\ OrdersInit([pr \in Products |-> 5 * (pr + 1)], {PENDING, DELIVERED})
    /\ \A o \in Orders : order_status[o] = DELIVERED <=> o = 1
    /\ PayParked
    /\ loyalty_points = earned(order_total[1])
    /\ loyalty_tx = <<[kind |-> "accrual", order |-> 1, points |-> earned(order_total[1])]>>
    /\ lproc = [p \in LoyaltyProcs |-> IdleLoyaltyProc]
    /\ StockParked

SpecLoyaltyUse == LoyaltyUseInit /\ [][LoyaltyNext]_vars

SpecLoyalty == LoyaltyInit /\ [][LoyaltyNext]_vars
SpecLoyaltySeq == LoyaltyInit /\ [][LoyaltyNextSeq]_vars

\* ------------------------------------------------------ claims: orders
\* the input the contract of create_order asks for: at least one line, every
\* line a positive quantity of an existing product
ValidLinesData(lines_data) ==
    /\ Len(lines_data) > 0
    /\ \A k \in 1..Len(lines_data) :
          lines_data[k].product \in Products /\ lines_data[k].quantity > 0

\* C10: a create_order request with a non-empty list of lines of positive
\* quantity succeeds and leaves a PENDING order with one line per input line
\* and a total equal to the sum of quantity times current selling price.
C10_CreateOrderSucceeds ==
    (oreq.op = "create" /\ oreq.order_status = PENDING /\ ValidLinesData(oreq.lines))
    => /\ oreq.outcome = "created"
       /\ oreq.order \in OrderIds
       /\ order_status[oreq.order] = PENDING
       /\ Cardinality(LinesOf(oreq.order)) = Len(oreq.lines)
       /\ order_total[oreq.order] =
             Sum([k \in 1..Len(oreq.lines) |->
                     oreq.lines[k].quantity * product_price[oreq.lines[k].product]],
                 1..Len(oreq.lines))

\* C11: after any sequence of line additions, quantity changes and line
\* removals, the total of every order is the sum of quantity times unit price
\* over the lines the order has now.
C11_TotalIsLinesSum ==
    \A o \in OrderIds : order_total[o] = LinesTotal(LinesOf(o))

\* C21: the unit price of an existing order line never changes: no later save
\* of the line, after a change of the product's selling price or not, moves it
\* away from the price taken when the line was created.
C21_UnitPriceFixed ==
    [][\A l \in order_lines : \A m \in order_lines' :
          m.id = l.id => m.unit_price = l.unit_price]_vars

\* C26 (as stated): create_order with an empty list of lines fails with a
\* ValidationError and persists nothing: no Order, no OrderLine and no
\* Delivery exist for the request afterwards.  Nothing is persisted indeed,
\* but the request ends with ValueError, raised before clean can decide
\* (see CleanBeforeInsertError), not with a ValidationError.
C26_EmptyLinesValidationError ==
    [][(oreq'.op = "create" /\ oreq'.lines = <<>>)
       => /\ oreq'.outcome = "error"
          /\ oreq'.exc = "ValidationError"
          /\ order_status' = order_status
          /\ order_total' = order_total
          /\ order_lines' = order_lines
          /\ deliveries' = deliveries]_vars

\* C27 (as stated): creating an order creates exactly one Delivery linked to
\* it, in EN_ATTENTE status, and later saves of the order create no further
\* Delivery.  No order is ever inserted through Order.save (C10), so the
\* receiver never runs with created = True and no Delivery is ever created.
C27_OneDeliveryPerCreatedOrder ==
    /\ (oreq.op = "create" /\ oreq.order_status = PENDING /\ ValidLinesData(oreq.lines))
       => /\ oreq.order \in OrderIds
          /\ Cardinality({d \in deliveries : d.order = oreq.order}) = 1
          /\ \A d \in deliveries : d.order = oreq.order => d.delivery_status = EN_ATTENTE
    /\ \A o \in OrderIds : Cardinality({d \in deliveries : d.order = o}) <= 1

\* C28 (as stated): when the lines of an order are modified after payments
\* were recorded (a quantity reduced, a line saved again after the product's
\* selling price was lowered), the order's PAID payments still sum to at most
\* its total.  OrderLine.save and Order.update_total look at no payment.
C28_PaidWithinTotalAfterLineChange ==
    oreq.op \in {"update_line", "add_line", "delete_line"}
    => \A o \in OrderIds : PaidSum(payments, o, 0) <= order_total[o]

\* ---------------------------------------------------- claims: payments
PaySaved(p) == pproc[p].id # 0 /\ pproc[p].pc \in {"saved", "done"}

\* C1: with payment creations and updates run one at a time on orders whose
\* lines do not change, the PAID payments of an order never sum to more than
\* the order's total.
C1_PaidNeverExceedsTotal ==
    \A o \in Orders : PaidSum(payments, o, 0) <= order_total[o]

\* an order paid in full by several payments, after an update of a payment
C1_Witness ==
    \E o \in Orders :
        /\ PaidSum(payments, o, 0) = order_total[o]
        /\ Cardinality({i \in PaymentIds : payments[i].order = o
                                           /\ payments[i].payment_status = PAID
                                           /\ payments[i].amount > 0}) >= 2
        /\ \E k \in 1..Len(payment_logs) :
              payment_logs[k].order = o /\ ~payment_logs[k].new

\* C2: two concurrent payment requests on one order whose amounts together
\* exceed what is left to pay (the total minus the other PAID payments) are
\* never both persisted as PAID.
C2_AtMostOnePaidConcurrent ==
    \A p, q \in PayProcs :
        (/\ p # q
         /\ PaySaved(p) /\ PaySaved(q)
         /\ pproc[p].id # pproc[q].id
         /\ pproc[p].order = pproc[q].order
         /\ LET o == pproc[p].order
                others == {i \in PaymentIds \ {pproc[p].id, pproc[q].id} :
                              payments[i].order = o /\ payments[i].payment_status = PAID}
            IN pproc[p].amount + pproc[q].amount
                  > order_total[o] - Sum([i \in others |-> payments[i].amount], others))
        => ~(/\ payments[pproc[p].id].payment_status = PAID
             /\ payments[pproc[q].id].payment_status = PAID)

\* C3: no step of a payment request changes the status of an order that is
\* DELIVERED or CANCELLED.
C3_TerminalUnderPayments ==
    [][\A o \in Orders :
          order_status[o] \in {DELIVERED, CANCELLED} => order_status'[o] = order_status[o]]_vars

\* a payment save on order o is committed in this step
PaymentSavedOn(o) ==
    /\ Len(payment_logs') = Len(payment_logs) + 1
    /\ payment_logs'[Len(payment_logs')].order = o

\* C16: a payment save on a PENDING order moves the order to EN_COURS exactly
\* when the PAID payments of the order then sum to at least its total, and
\* leaves it PENDING otherwise (a PAID payment below the total, a PENDING or
\* FAILED payment); a step that saves no payment changes no status.
C16_EnCoursWhenCovered ==
    [][/\ \A o \in Orders :
             (order_status[o] = PENDING /\ PaymentSavedOn(o))
             => order_status'[o] = IF PaidSum(payments', o, 0) >= order_total[o]
                                   THEN EN_COURS ELSE PENDING
       /\ payment_logs' = payment_logs => order_status' = order_status]_vars

\* an order that went from PENDING to EN_COURS on its second PAID payment,
\* beside an order still PENDING with a PAID payment below its total
C16_Witness ==
    \E o, u \in Orders :
        /\ order_status[o] = EN_COURS /\ order_status[u] = PENDING
        /\ PaidSum(payments, o, 0) = order_total[o]
        /\ Cardinality({i \in PaymentIds : payments[i].order = o
                                           /\ payments[i].payment_status = PAID
                                           /\ payments[i].amount > 0}) = 2
        /\ \E i \in PaymentIds : payments[i].order = u
        /\ PaidSum(payments, u, 0) < order_total[u]

\* C17: once the PAID payments of an order have reached its total, no later
\* payment save (a re-save of a PAID payment, a further payment) writes the
\* order's status again.
C17_TransitionFiresOnce ==
    [][\A o \in Orders :
          PaidSum(payments, o, 0) >= order_total[o]
          => order_status'[o] = order_status[o]]_vars

\* the amount of request p is more than what is left to pay on its order
ExceedsOutstanding(p) ==
    /\ pproc[p].pc # "idle"
    /\ pproc[p].amount >
          order_total[pproc[p].order] - PaidSum(payments, pproc[p].order, pproc[p].id)

\* C18: a payment request whose amount exceeds the outstanding balance of its
\* order never gets past the checks, and the step that refuses a request, like
\* every step of a refused request, leaves the Payment and PaymentLog rows,
\* the order statuses and the client's balance as they were.
C18_ExceedingPersistsNothing ==
    [][\A p \in PayProcs :
          /\ ExceedsOutstanding(p)' => pproc'[p].pc \in {"validated", "failed"}
          /\ (pproc[p].pc = "failed" \/ pproc'[p].pc = "failed")
             => /\ payments' = payments
                /\ payment_logs' = payment_logs
                /\ order_status' = order_status
                /\ client_balance' = client_balance]_vars

\* a PAID payment within the order's total refused because of what is
\* already paid
C18_Witness ==
    \E p \in PayProcs :
        /\ pproc[p].pc = "failed" /\ ExceedsOutstanding(p)
        /\ pproc[p].payment_status = PAID
        /\ pproc[p].amount <= order_total[pproc[p].order]
        /\ PaidSum(payments, pproc[p].order, 0) > 0
        /\ Len(payment_logs) = Len(payments)

PayQuiescent == \A p \in PayProcs : pproc[p].pc \in {"idle", "done", "failed"}

\* what the balance-method payments that are PAID amount to
BalancePaid ==
    LET ids == {i \in PaymentIds : payments[i].method = "BALANCE"
                                    /\ payments[i].payment_status = PAID}
    IN Sum([i \in ids |-> payments[i].amount], ids)

\* C22: when no payment request is under way, the client's balance is the
\* starting balance less the amounts of the balance-method payments that are
\* PAID (each taken off exactly once, whether created PAID or updated to
\* PAID), other payments having left it alone.
C22_BalanceDeductedOnce ==
    PayQuiescent => client_balance = (MaxAmount - 1) - BalancePaid

\* request p created a PAID balance-method payment and has written the balance
BalanceDeducted(p) ==
    /\ pproc[p].pc = "done" /\ pproc[p].kind = "create"
    /\ pproc[p].method = "BALANCE" /\ pproc[p].payment_status = PAID

\* C23: the client's balance is never negative, and two balance-method
\* payments whose amounts together exceed the balance they were checked
\* against never both deduct.
C23_BalanceNeverOverdrawn ==
    /\ client_balance >= 0
    /\ \A p, q \in PayProcs :
          (p # q /\ BalanceDeducted(p) /\ BalanceDeducted(q))
          => pproc[p].amount + pproc[q].amount
                <= IF pproc[p].balance >= pproc[q].balance
                   THEN pproc[p].balance ELSE pproc[q].balance

\* C24: a step that writes a payment or a log entry is one committed save: it
\* appends exactly one PaymentLog entry, which carries the order, status and
\* amount of the one Payment row that the step inserted or rewrote.
C24_OneLogPerSave ==
    [][(payments' # payments \/ payment_logs' # payment_logs)
       => /\ Len(payment_logs') = Len(payment_logs) + 1
          /\ SubSeq(payment_logs', 1, Len(payment_logs)) = payment_logs
          /\ LET e == payment_logs'[Len(payment_logs')]
             IN \E i \in 1..Len(payments') :
                   /\ e.order = payments'[i].order
                   /\ e.payment_status = payments'[i].payment_status
                   /\ e.amount = payments'[i].amount
                   /\ e.new = (i > Len(payments))
                   /\ Len(payments') = IF e.new THEN Len(payments) + 1 ELSE Len(payments)
                   /\ \A j \in 1..Len(payments) : j # i => payments'[j] = payments[j]]_vars

\* a payment created PENDING and saved again as PAID, with its two log entries
C24_Witness ==
    /\ Len(payments) = 1 /\ Len(payment_logs) = 2
    /\ payment_logs[1].new /\ payment_logs[1].payment_status = PAY_PENDING
    /\ ~payment_logs[2].new /\ payment_logs[2].payment_status = PAID
    /\ payments[1].payment_status = PAID /\ payments[1].amount = payment_logs[2].amount

\* C25: with saves run one at a time, every PAID payment has paid_at set, and
\* a PAID payment whose paid_at is set keeps that paid_at through every
\* later save.
C25_PaidAtStampedOnce ==
    [][\A i \in 1..Len(payments') :
          /\ payments'[i].payment_status = PAID => payments'[i].paid_at # 0
          /\ (i <= Len(payments) /\ payments[i].payment_status = PAID
                /\ payments[i].paid_at # 0)
             => payments'[i].paid_at = payments[i].paid_at]_vars

\* a PAID payment saved again as PAID twice, still with its first stamp
C25_Witness ==
    /\ Len(payments) = 1 /\ Len(payment_logs) = 3
    /\ \A k \in 1..3 : payment_logs[k].payment_status = PAID
    /\ payments[1].payment_status = PAID /\ payments[1].paid_at = 1

\* ----------------------------------------------------- claims: loyalty
LoyaltyQuiescent == \A p \in LoyaltyProcs : ~LoyaltyInProgress(p)
AccrualsFor(o) ==
    {i \in 1..Len(loyalty_tx) : loyalty_tx[i].kind = "accrual" /\ loyalty_tx[i].order = o}
TxPoints(I) == Sum([i \in I |-> loyalty_tx[i].points], I)

\* C4: every order in DELIVERED status has, once the request that saved it has
\* ended, exactly one accrual transaction referencing it in the loyalty log,
\* whatever loyalty operations came before (redemptions recorded with that
\* order included).
C4_OneAccrualPerDelivered ==
    LoyaltyQuiescent =>
        \A o \in Orders :
            order_status[o] = DELIVERED => Cardinality(AccrualsFor(o)) = 1

\* C5: with requests run one at a time, an order saved in DELIVERED status has
\* been credited floor(total / 10) points (its first such save), and nothing
\* more by its further saves: the accruals logged for it sum to that amount
\* and the points total is the sum of the log's deltas.
C5_CreditedOnceFloor ==
    LoyaltyQuiescent =>
        /\ \A o \in Orders :
              order_status[o] = DELIVERED =>
                  TxPoints(AccrualsFor(o)) = order_total[o] \div 10
        /\ loyalty_points = TxPoints(1..Len(loyalty_tx))

\* C6: in every interleaving of concurrent saves of an order in DELIVERED
\* status, the log holds at most one accrual for the order and at most one
\* of the saves has added floor(total / 10) to the points.
Credited(p) ==
    /\ lproc[p].kind = "save"
    /\ \/ lproc[p].pc \in {"refresh", "write"}
       \/ lproc[p].pc = "done" /\ lproc[p].result # <<>>
C6_SingleAccrualConcurrent ==
    \A o \in Orders :
        /\ Cardinality(AccrualsFor(o)) <= 1
        /\ Cardinality({p \in LoyaltyProcs : lproc[p].order = o /\ Credited(p)}) <= 1

\* C29 (as stated): for an account that starts with 0 points and an empty
\* log, whenever no loyalty operation is in progress the points equal the sum
\* of the 'points' deltas of the log, after any accruals and use_points calls,
\* concurrent ones on the same account included, and the entry of every
\* operation that went through is in the log.  Two concurrent operations both
\* re-read the list and each writes it back whole with its own entry only.
C29_PointsEqualLogSum ==
    LoyaltyQuiescent =>
        /\ loyalty_points = TxPoints(1..Len(loyalty_tx))
        /\ \A p \in LoyaltyProcs :
              (lproc[p].pc = "done" /\ lproc[p].result # <<>>)
              => \E i \in 1..Len(loyalty_tx) : loyalty_tx[i] = NewTxn(lproc[p])

\* a use_points call whose UPDATE went through
UseSucceeded(p) == lproc[p].kind = "use" /\ lproc[p].pc \in {"refresh", "write", "done"}

\* C12: in every interleaving of concurrent use_points calls the points are
\* never negative, and two calls that both went through asked together for no
\* more than the balance they drew on (the points left plus what they took).
C12_NoOverdraw ==
    /\ loyalty_points >= 0
    /\ \A p, q \in LoyaltyProcs :
          (p # q /\ UseSucceeded(p) /\ UseSucceeded(q))
          => lproc[p].points + lproc[q].points
                <= loyalty_points + lproc[p].points + lproc[q].points

\* two calls that each fit the balance but not together: one went through,
\* the other passed the check and is refused
C12_Witness ==
    \E p, q \in LoyaltyProcs :
        /\ p # q /\ UseSucceeded(q) /\ lproc[q].points > 0
        /\ lproc[p].kind = "use" /\ lproc[p].pc = "failed" /\ lproc[p].points > 0
        /\ lproc[p].points <= loyalty_points + lproc[q].points
        /\ lproc[p].points > loyalty_points

\* C13: a use_points call asking for 0 or a negative number of points is
\* rejected: its UPDATE is never applied and nothing is appended.
C13_NonPositiveRejected ==
    \A p \in LoyaltyProcs :
        (lproc[p].kind = "use" /\ lproc[p].points <= 0) => ~UseSucceeded(p)

\* a request starts use_points in this step
UseStarts(p) == lproc[p].pc = "idle" /\ lproc'[p].pc # "idle" /\ lproc'[p].kind = "use"

\* C14: a use_points call asking for more points than the account holds fails
\* at once, and neither the points nor the log change through the failed call.
C14_InsufficientRejected ==
    [][\A p \in LoyaltyProcs :
          /\ (UseStarts(p) /\ lproc'[p].points > loyalty_points)
                => /\ lproc'[p].pc = "failed"
                   /\ loyalty_points' = loyalty_points
                   /\ loyalty_tx' = loyalty_tx
          /\ (lproc[p].kind = "use" /\ lproc[p].pc = "failed")
                => (loyalty_points' = loyalty_points /\ loyalty_tx' = loyalty_tx)]_vars

\* an account holding points has refused a call asking for more
C14_Witness ==
    \E p \in LoyaltyProcs :
        /\ lproc[p].kind = "use" /\ lproc[p].pc = "failed"
        /\ loyalty_points > 0 /\ lproc[p].points > loyalty_points
        /\ Len(loyalty_tx) > 0

\* C15: with calls run one at a time, a use_points call with 0 < points <=
\* balance passes the check, takes exactly its points off the balance,
\* appends exactly one entry of -points to the log and returns the points.
C15_ValidUse ==
    [][\A p \in LoyaltyProcs :
          /\ (UseStarts(p) /\ lproc'[p].points > 0 /\ lproc'[p].points <= loyalty_points)
                => lproc'[p].pc = "update"
          /\ (lproc[p].kind = "use" /\ lproc[p].points > 0 /\ lproc'[p] # lproc[p])
                => /\ lproc[p].pc = "update"
                      => /\ lproc'[p].pc = "refresh"
                         /\ loyalty_points' = loyalty_points - lproc[p].points
                         /\ loyalty_tx' = loyalty_tx
                   /\ lproc[p].pc = "refresh"
                      => (loyalty_points' = loyalty_points /\ loyalty_tx' = loyalty_tx)
                   /\ lproc[p].pc = "write"
                      => /\ loyalty_points' = loyalty_points
                         /\ loyalty_tx' = Append(loyalty_tx,
                               [kind |-> "use", order |-> lproc[p].order,
                                points |-> -lproc[p].points])
                         /\ lproc'[p].pc = "done"
                         /\ lproc'[p].result = <<lproc[p].points>>]_vars

\* a completed call that used points of an account
C15_Witness ==
    \E p \in LoyaltyProcs :
        /\ lproc[p].kind = "use" /\ lproc[p].pc = "done" /\ lproc[p].points > 0
        /\ lproc[p].result = <<lproc[p].points>>
        /\ Len(loyalty_tx) >= 2
        /\ loyalty_tx[Len(loyalty_tx)].points = -lproc[p].points

\* ------------------------------------------------------- claims: stock
MovementsOf(w, t) == {m \in movements : m.warehouse = w /\ m.movement_type = t}
QuantitySum(ms) == Sum([m \in ms |-> m.quantity], ms)

\* C7: a new movement whose save fails after it started leaves no
\* StockMovement record and leaves the StockLevel as it was before the save.
C7_MovementAtomic ==
    \A p \in StockProcs :
        sproc[p].pc = "failed" =>
            /\ ~\E m \in movements : m.id = p
            /\ stock_level[sproc[p].warehouse] = sproc[p].before

\* C8: once all concurrent movements have completed, the quantity of every
\* (product, warehouse) pair is the sum of the adjustments of all the movements
\* whose save returned, whatever the interleaving, first movements included.
C8_NoLostUpdate ==
    (\A p \in StockProcs : sproc[p].pc \in {"done", "failed"}) =>
        \A w \in Warehouses :
            LET applied == {p \in StockProcs : sproc[p].pc = "done" /\ sproc[p].warehouse = w}
            IN stock_level[w].quantity =
                 Sum([p \in applied |-> ajustement(sproc[p].movement_type, sproc[p].quantity)],
                     applied)

\* two movements that both found the fresh pair at 0 (each read the level
\* before the other wrote it) and both completed
C8_Witness ==
    \E p, q \in StockProcs :
        /\ p # q
        /\ sproc[p].pc = "done" /\ sproc[q].pc = "done"
        /\ sproc[p].warehouse = sproc[q].warehouse
        /\ ~sproc[p].before.exists /\ ~sproc[q].before.exists
        /\ sproc[p].niveau = 0 /\ sproc[q].niveau = 0
        /\ sproc[p].movement_type = MV_IN /\ sproc[p].quantity > 0
        /\ sproc[q].movement_type = MV_ADJ /\ sproc[q].quantity > 0
        /\ \A r \in StockProcs : sproc[r].pc \in {"done", "failed"}

\* C9: when every movement created so far was saved without error, the
\* quantity of a pair is sum(IN) + sum(ADJUST) - sum(OUT) of its movements.
C9_LevelIsNetSum ==
    (\A p \in StockProcs : sproc[p].pc \in {"idle", "done"}) =>
        \A w \in Warehouses :
            stock_level[w].quantity =
                QuantitySum(MovementsOf(w, MV_IN)) + QuantitySum(MovementsOf(w, MV_ADJ))
                    - QuantitySum(MovementsOf(w, MV_OUT))

\* IN q1 then OUT q2 with 0 < q2 < q1, one after the other, on a fresh pair
C9_Witness ==
    \E p, q \in StockProcs :
        /\ sproc[p].pc = "done" /\ sproc[q].pc = "done"
        /\ sproc[p].warehouse = sproc[q].warehouse
        /\ ~sproc[p].before.exists
        /\ sproc[p].movement_type = MV_IN /\ sproc[q].movement_type = MV_OUT
        /\ sproc[q].quantity > 0 /\ sproc[q].quantity < sproc[p].quantity
        /\ sproc[q].niveau = sproc[p].quantity
        /\ stock_level[sproc[p].warehouse].quantity = sproc[p].quantity - sproc[q].quantity
        /\ \A r \in StockProcs \ {p, q} : sproc[r].pc = "idle"

\* C30 (as stated): with movements created, updated and deleted one request
\* at a time, whenever no save is under way and none has failed, the
\* StockLevel quantity of a pair equals sum(IN) + sum(ADJUST) - sum(OUT) of
\* the movement records that exist for the pair.  The level is adjusted when
\* a movement is created only: an update or a deletion leaves it behind.
C30_LevelIsNetSumOfExisting ==
    (\A p \in StockProcs : sproc[p].pc \in {"idle", "done"}) =>
        \A w \in Warehouses :
            stock_level[w].quantity =
                QuantitySum({m \in movements : m.warehouse = w /\ m.movement_type # MV_OUT})
                    - QuantitySum(MovementsOf(w, MV_OUT))

\* the level the movement of request p results in, from the level its save found
ResultingLevel(p) ==
    sproc[p].before.quantity + ajustement(sproc[p].movement_type, sproc[p].quantity)

\* C19: a movement save never fails through the dispatch of a stock alert: a
\* save that fails was refused by storage (its level would have gone below
\* zero), and every other save goes on to persist its level update.
C19_NotificationNeverFails ==
    \A p \in StockProcs :
        sproc[p].pc = "failed" => ResultingLevel(p) < 0

\* C20: the alerts are checked against the level the movement results in: for
\* a movement that storage accepts, an alert fires (and, firing, breaks the
\* save) exactly when an active alert has a threshold at or above the
\* resulting StockLevel quantity.
C20_AlertsSeeResultingLevel ==
    \A p \in StockProcs :
        (sproc[p].pc # "idle" /\ ResultingLevel(p) >= 0)
        => (sproc[p].pc = "failed"
              <=> \E alert \in alerts : alert.is_active /\ ResultingLevel(p) <= alert.threshold)

====
